---------------------------- MODULE Spec2Model ----------------------------
(***************************************************************************)
(* Model of TerminalLinkHandler                                            *)
(* (src/vs/workbench/parts/terminal/electron-browser/terminalLinkHandler.ts)*)
(*                                                                         *)
(* Strings are sequences of one-character strings, so that charAt,         *)
(* substring, concatenation and the path module's normalisation are        *)
(* computed character by character.                                        *)
(***************************************************************************)
EXTENDS Integers, Sequences, FiniteSets, Bags, TLC

(***************************************************************************)
(* Bounds of the model.                                                    *)
(***************************************************************************)
\* Resolution requests (validations and modifier clicks on local links)
\* issued in one behaviour.
MaxReqs == 2
\* Matchers registered through registerCustomLinkHandler /
\* registerLocalLinkHandler in one behaviour.
MaxMatchers == 2
\* Paths of the filesystem that are files or fail to stat when a single
\* resolution is checked from an arbitrary environment.
MaxFsEntries == 1
\* The length of a line of terminal output.
MaxLen == 4
\* The hypertext validations of an element.
MaxListeners == 2

(***************************************************************************)
(* Optional values: undefined / null is None, a value v is Some(v).        *)
(***************************************************************************)
None == <<>>
Some(v) == <<v>>

(***************************************************************************)
(* String literals used as inputs and in the claims' examples.             *)
(***************************************************************************)
Letters ==
  {"a","b","c","d","e","f","g","h","i","j","k","l","m","n","o","p","q","r",
   "s","t","u","v","w","x","y","z","A","B","C","D","E","F","G","H","I","J",
   "K","L","M","N","O","P","Q","R","S","T","U","V","W","X","Y","Z"}

\* '~/foo'
TildeFoo == <<"~","/","f","o","o">>
\* './foo'
DotFoo == <<".","/","f","o","o">>
\* '../foo'
DotDotFoo == <<".",".","/","f","o","o">>
\* '/foo'
AbsFoo == <<"/","f","o","o">>
\* 'C:\foo'
DriveFoo == <<"C",":","\\","f","o","o">>
\* 'C:'
DriveC == <<"C",":">>
\* '\Users\u'
UsersU == <<"\\","U","s","e","r","s","\\","u">>
\* '/home/u/project'
HomeUProject == <<"/","h","o","m","e","/","u","/","p","r","o","j","e","c","t">>
\* 'C:\ws'
WinWs == <<"C",":","\\","w","s">>
\* '/cwd'
PosixCwd == <<"/","c","w","d">>
\* 'C:\cwd'
WinCwd == <<"C",":","\\","c","w","d">>

(***************************************************************************)
(* Node's path module (normalize, join, resolve), posix and win32          *)
(* flavours.  The flavour is the one of the host the process runs on.      *)
(* UNC paths (two leading separators) are outside the inputs of the model. *)
(***************************************************************************)
IsSep(c, win) == c = "/" \/ (win /\ c = "\\")

\* s.split(separator): the segments between separators, empty ones included.
RECURSIVE split(_, _)
split(s, win) ==
  IF s = <<>> THEN << <<>> >>
  ELSE LET rest == split(Tail(s), win) IN
       IF IsSep(Head(s), win)
       THEN << <<>> >> \o rest
       ELSE << <<Head(s)>> \o Head(rest) >> \o Tail(rest)

\* Resolves '.' and '..' segments and drops empty ones.
RECURSIVE normalizeArray(_, _, _)
normalizeArray(parts, allowAboveRoot, res) ==
  IF parts = <<>> THEN res
  ELSE LET p == Head(parts) IN
       IF p = <<>> \/ p = <<".">>
       THEN normalizeArray(Tail(parts), allowAboveRoot, res)
       ELSE IF p = <<".",".">>
       THEN IF res # <<>> /\ res[Len(res)] # <<".",".">>
            THEN normalizeArray(Tail(parts), allowAboveRoot,
                                SubSeq(res, 1, Len(res) - 1))
            ELSE IF allowAboveRoot
            THEN normalizeArray(Tail(parts), allowAboveRoot, Append(res, p))
            ELSE normalizeArray(Tail(parts), allowAboveRoot, res)
       ELSE normalizeArray(Tail(parts), allowAboveRoot, Append(res, p))

\* parts.join(sep)
RECURSIVE joinWith(_, _)
joinWith(parts, sep) ==
  IF parts = <<>> THEN <<>>
  ELSE IF Len(parts) = 1 THEN Head(parts)
  ELSE Head(parts) \o <<sep>> \o joinWith(Tail(parts), sep)

\* The device ('C:') a win32 path starts with, or the empty string.
winDevice(p) ==
  IF Len(p) >= 2 /\ p[1] \in Letters /\ p[2] = ":" THEN SubSeq(p, 1, 2) ELSE <<>>

winRest(p) == SubSeq(p, Len(winDevice(p)) + 1, Len(p))

isAbsolute(p, win) ==
  IF win THEN winRest(p) # <<>> /\ IsSep(winRest(p)[1], TRUE)
  ELSE p # <<>> /\ p[1] = "/"

\* path.normalize
normalize(p, win) ==
  IF p = <<>> THEN <<".">>
  ELSE LET sep == IF win THEN "\\" ELSE "/"
           device == IF win THEN winDevice(p) ELSE <<>>
           rest == IF win THEN winRest(p) ELSE p
           abs == isAbsolute(p, win)
           trailing == rest # <<>> /\ IsSep(rest[Len(rest)], win)
           tail0 == joinWith(normalizeArray(split(rest, win), ~abs, <<>>), sep)
           tail1 == IF tail0 = <<>> /\ ~abs THEN <<".">> ELSE tail0
           tail2 == IF tail1 # <<>> /\ trailing
                    THEN tail1 \o <<sep>> ELSE tail1
       IN device \o (IF abs THEN <<sep>> ELSE <<>>) \o tail2

\* path.join(a, b)
join(a, b, win) ==
  LET sep == IF win THEN "\\" ELSE "/"
      joined == IF a = <<>> THEN b
                ELSE IF b = <<>> THEN a
                ELSE a \o <<sep>> \o b
  IN normalize(joined, win)

\* process.cwd()
cwd(win) == IF win THEN WinCwd ELSE PosixCwd

\* path.resolve(p): an absolute path, '.' and '..' resolved, no trailing
\* separator.
resolve(p, win) ==
  LET sep == IF win THEN "\\" ELSE "/"
      device == IF win THEN winDevice(p) ELSE <<>>
      rest == IF win THEN winRest(p) ELSE p
      base == IF isAbsolute(p, win) THEN rest
              ELSE (IF win THEN winRest(cwd(win)) ELSE cwd(win)) \o <<sep>> \o rest
      dev == IF win /\ device = <<>> THEN winDevice(cwd(win)) ELSE device
  IN dev \o <<sep>> \o joinWith(normalizeArray(split(base, win), FALSE, <<>>), sep)

(***************************************************************************)
(* Constants of terminalLinkHandler.ts.                                    *)
(***************************************************************************)
\* Higher than local link, lower than hypertext
CUSTOM_LINK_PRIORITY == -1
\* Lowest
LOCAL_LINK_PRIORITY == -2
\* Priority of the terminal's own hypertext matcher (options.priority || 0).
HYPERTEXT_LINK_PRIORITY == 0

\* platform.Platform
Platforms == {"Mac", "Linux", "Windows"}

\* Link strings handed to the local-link handler and validation callback.
Links == {TildeFoo, DotFoo, DotDotFoo, AbsFoo}

\* DOM elements of matched spans.
Elements == {"e1", "e2"}

\* Values of process.env.HOMEDRIVE: undefined, '' and 'C:'.
HomeDrives == {None, Some(<<>>), Some(DriveC)}
\* Values of process.env.HOMEPATH: undefined and '\Users\u'.
HomePaths == {None, Some(UsersU)}

(***************************************************************************)
(* State.                                                                  *)
(***************************************************************************)
VARIABLES
  \* this._platform: the platform injected at construction.
  _platform,
  \* The platform the process really runs on (process.platform): it selects
  \* the flavour of the path module and platform.isMacintosh.
  hostPlatform,
  \* this._contextService.hasWorkspace
  hasWorkspace,
  \* process.env.HOMEDRIVE, process.env.HOMEPATH
  HOMEDRIVE,
  HOMEPATH,
  \* The filesystem: the paths that are existing regular files, and the
  \* paths whose stat fails (permission, I/O error).
  files,
  broken,
  \* this._xterm: the registered link matchers, in the registry's order.
  linkMatchers,
  nextLinkMatcherId,
  \* The outcome of the last call of a wrapped link handler.
  lastEvent,
  \* The bag of resolution requests issued so far, in flight or settled.
  reqs,
  \* Per element, the mouseenter/mouseleave listener pairs attached by
  \* _addTooltipEventListeners: for each pair, in the order of attachment,
  \* the `timeout` variable its two closures share.
  listeners,
  \* Per element, the pointer: whether it is over the element, and for
  \* the hover in progress or the last one over, the showMessage calls of
  \* the element's timers and whether the pointer left before any.
  hover,
  \* What the widget manager shows: None, or the last showMessage.
  message,
  \* A line of terminal output, and what the local-path pattern of the
  \* platform has matched in it once the terminal has scanned it.
  text,
  found

vars == <<_platform, hostPlatform, hasWorkspace, HOMEDRIVE, HOMEPATH, files,
          broken, linkMatchers, nextLinkMatcherId, lastEvent, reqs, listeners,
          hover, message, text, found>>

envVars == <<_platform, hostPlatform, hasWorkspace, HOMEDRIVE, HOMEPATH>>
fsVars == <<files, broken>>
xtermVars == <<linkMatchers, nextLinkMatcherId>>
hoverVars == <<hover, message>>
scanVars == <<text, found>>

\* The path module of the host is win32.
hostWin == hostPlatform = "Windows"

\* workspaceRoot as a relative path, the parent of the working directory.
workspaceRoot_relative(win) == <<".", ".">>

\* this._contextService.getWorkspace().resource.fsPath
workspaceRoot(win) == IF win THEN WinWs ELSE HomeUProject

(***************************************************************************)
(* _resolvePath, up to the existence check (lines 132-158).                *)
(***************************************************************************)
\* link.charAt(i)
charAt(s, i) == IF i + 1 <= Len(s) THEN s[i + 1] ELSE ""
\* link.substring(i)
substring(s, i) == SubSeq(s, i + 1, Len(s))
\* !!process.env.X : undefined and '' are falsy.
truthy(v) == v # None /\ v[1] # <<>>

\* Outcome of a step of the rewriting: abort (TPromise.as(void 0)) or the
\* rewritten link.
Abort == [abort |-> TRUE, link |-> <<>>]
Goes(l) == [abort |-> FALSE, link |-> l]

\* tildeRewrite without the test of the environment values: a missing
\* value is taken as the empty string.
tildeRewrite_noEnvCheck(link, hd, hp) ==
  IF charAt(link, 0) = "~"
  THEN Goes((IF truthy(hd) THEN hd[1] ELSE <<>>) \o <<"\\">>
            \o (IF truthy(hp) THEN hp[1] ELSE <<>>) \o substring(link, 1))
  ELSE Goes(link)

\* tildeRewrite with the home drive and the home path put together without
\* a separator in between.
tildeRewrite_noSeparator(link, hd, hp) ==
  IF charAt(link, 0) = "~"
  THEN IF ~truthy(hd) \/ ~truthy(hp)
       THEN Abort
       ELSE Goes(hd[1] \o hp[1] \o substring(link, 1))
  ELSE Goes(link)

\* Lines 135-140: ~ -> %HOMEDRIVE%\%HOMEPATH%
tildeRewrite(link, hd, hp) ==
  IF charAt(link, 0) = "~"
  THEN IF ~truthy(hd) \/ ~truthy(hp)
       THEN Abort
       ELSE Goes(hd[1] \o <<"\\">> \o hp[1] \o substring(link, 1))
  ELSE Goes(link)

\* dotRewrite with the workspace root and the link put together with a
\* separator, not path.join.
dotRewrite_concat(link, hasWs, win) ==
  IF charAt(link, 0) = "."
  THEN IF ~hasWs
       THEN Abort
       ELSE Goes(workspaceRoot(win) \o <<IF win THEN "\\" ELSE "/">> \o link)
  ELSE Goes(link)

\* Lines 143-149 and 152-158: . / .. -> <workspace>/. / <workspace>/..
dotRewrite(link, hasWs, win) ==
  IF charAt(link, 0) = "."
  THEN IF ~hasWs
       THEN Abort
       ELSE Goes(join(workspaceRoot(win), link, win))
  ELSE Goes(link)

\* platformBranch with the tilde rewriting done on every platform, before
\* the dot check of the non-Windows branch.
platformBranch_tildeEverywhere(link, plat, hd, hp, hasWs, win) ==
  IF plat = "Windows" \/ charAt(link, 0) = "~"
  THEN tildeRewrite(link, hd, hp)
  ELSE dotRewrite(link, hasWs, win)

\* Lines 133-150: the platform branch.
platformBranch(link, plat, hd, hp, hasWs, win) ==
  IF plat = "Windows"
  THEN tildeRewrite(link, hd, hp)
  ELSE dotRewrite(link, hasWs, win)

\* Lines 133-158: the path handed to pfs.fileExists, or Abort.
candidatePath(link, plat, hd, hp, hasWs, win) ==
  LET first == platformBranch(link, plat, hd, hp, hasWs, win)
  IN IF first.abort THEN Abort ELSE dotRewrite(first.link, hasWs, win)

\* candidate with a memory of the links already asked about: a link is
\* rewritten the first time only, any later request for it aborts.
candidate_once(link) ==
  IF \E r \in BagToSet(reqs) : r.link = link
  THEN Abort
  ELSE candidatePath(link, _platform, HOMEDRIVE, HOMEPATH, hasWorkspace, hostWin)

\* candidatePath in the current state.
candidate(link) ==
  candidatePath(link, _platform, HOMEDRIVE, HOMEPATH, hasWorkspace, hostWin)

\* The paths the existence check can be asked about for the links ls.
Paths(ls) == {candidate(l).link : l \in {k \in ls : ~candidate(k).abort}}

\* pfs.fileExists(path): settles with true or false, or fails.
fileExists(p) ==
  IF p \in broken THEN "reject" ELSE IF p \in files THEN "true" ELSE "false"

(***************************************************************************)
(* Regular expressions, as new RegExp(...) compiles them and exec runs     *)
(* them: a pattern is a tree, and matching it from a position of a string  *)
(* gives the positions it can end at, in the order backtracking tries them.*)
(***************************************************************************)
Node(t, neg, cs, kids) == [t |-> t, neg |-> neg, cs |-> cs, kids |-> kids]
\* One character of the set; [^...] is one character not of the set.
Chr(cs) == Node("set", FALSE, cs, <<>>)
NotChr(cs) == Node("set", TRUE, cs, <<>>)
\* $ : the end of the input.
Eol == Node("eol", FALSE, {}, <<>>)
\* ab , a|b , a? , a* , a+
Cat(kids) == Node("cat", FALSE, {}, kids)
Alt(kids) == Node("alt", FALSE, {}, kids)
Opt(kid) == Node("opt", FALSE, {}, <<kid>>)
Star(kid) == Node("star", FALSE, {}, <<kid>>)
Plus(kid) == Node("plus", FALSE, {}, <<kid>>)

RECURSIVE Concat(_)
Concat(seqs) == IF seqs = <<>> THEN <<>> ELSE Head(seqs) \o Concat(Tail(seqs))

\* The sequence without the later occurrences of its elements.
Dedup(q) ==
  LET keep == {n \in 1..Len(q) : \A m \in 1..(n - 1) : q[m] # q[n]}
  IN [k \in 1..Cardinality(keep) |->
        q[CHOOSE n \in keep : Cardinality({m \in keep : m <= n}) = k]]

\* The positions of the sequences, in order; a position that was tried
\* already is not tried again, since what follows a position depends on
\* the position only (the patterns have no back-references).
Flatten(seqs) == Dedup(Concat(seqs))

RECURSIVE ends(_, _, _)
RECURSIVE catFrom(_, _, _, _)
RECURSIVE starFrom(_, _, _)

\* The rest of a concatenation, from its k-th part on.
catFrom(kids, k, s, i) ==
  IF k > Len(kids) THEN <<i>>
  ELSE LET js == ends(kids[k], s, i)
       IN Flatten([n \in 1..Len(js) |-> catFrom(kids, k + 1, s, js[n])])

\* A greedy repetition that has done what it must: another round if it
\* consumes something (a round that matches the empty string fails), and
\* stopping here as the last resort.
starFrom(kid, s, i) ==
  LET js == SelectSeq(ends(kid, s, i), LAMBDA j : j # i)
  IN Flatten([n \in 1..Len(js) |-> starFrom(kid, s, js[n])]) \o <<i>>

\* The positions (index of the next character, from 1) at which the
\* pattern can end when it starts at position i of s.
ends(re, s, i) ==
  CASE re.t = "set" ->
         IF i <= Len(s) /\ ((s[i] \in re.cs) # re.neg) THEN <<i + 1>> ELSE <<>>
    [] re.t = "eol" -> IF i = Len(s) + 1 THEN <<i>> ELSE <<>>
    [] re.t = "cat" -> catFrom(re.kids, 1, s, i)
    [] re.t = "alt" ->
         Flatten([n \in 1..Len(re.kids) |-> ends(re.kids[n], s, i)])
    [] re.t = "opt" ->
         SelectSeq(ends(re.kids[1], s, i), LAMBDA j : j # i) \o <<i>>
    [] re.t = "star" -> starFrom(re.kids[1], s, i)
    [] re.t = "plus" ->
         LET js == ends(re.kids[1], s, i)
         IN Flatten([n \in 1..Len(js) |-> starFrom(re.kids[1], s, js[n])])

\* regex.exec(s) / s.match(regex): the leftmost start with a match and
\* the first end backtracking arrives at; None when there is no match.
exec(re, s) ==
  LET starts == {i \in 1..(Len(s) + 1) : ends(re, s, i) # <<>>}
  IN IF starts = {} THEN None
     ELSE LET i == CHOOSE m \in starts : \A n \in starts : m <= n
              j == Head(ends(re, s, i))
          IN Some([index |-> i - 1, span |-> SubSeq(s, i, j - 1)])

(***************************************************************************)
(* The local-path patterns (lines 16-27).                                  *)
(***************************************************************************)
\* The characters \0 and ` (written out), and the characters of \s.
NUL == "NUL"
Backtick == "BACKTICK"
Whitespace == {" ", "\t", "\n", "\r"}
Backslash == Chr({"\\"})

\* '(\\.\\.?|\\~)'  :  (\.\.?|\~)
pathPrefix == Alt(<<Cat(<<Chr({"."}), Opt(Chr({"."}))>>), Chr({"~"})>>)
\* '\\/'  :  \/
pathSeparatorClause == Chr({"/"})
\* The characters [^\0\s!$`&*()\[\]+'":;] leaves out.
excludedPathCharacters ==
  {NUL} \cup Whitespace \cup
  {"!", "$", Backtick, "&", "*", "(", ")", "[", "]", "+", "'", "\"", ":", ";"}
excludedPathCharactersClause == NotChr(excludedPathCharacters)
\* '(\\\\s|\\\\!|\\\\$|\\\\`|\\\\&|\\\\*|(|)|\\+)'  :
\* (\\s|\\!|\\$|\\`|\\&|\\*|(|)|\+) , that is: a backslash and the letter
\* s, a backslash and !, a backslash at the end of the input, a backslash
\* and `, a backslash and &, any number of backslashes, a group of two
\* empty alternatives, the character +.
escapedExcludedPathCharactersClause ==
  Alt(<<Cat(<<Backslash, Chr({"s"})>>),
        Cat(<<Backslash, Chr({"!"})>>),
        Cat(<<Backslash, Eol>>),
        Cat(<<Backslash, Chr({Backtick})>>),
        Cat(<<Backslash, Chr({"&"})>>),
        Star(Backslash),
        Alt(<<Cat(<<>>), Cat(<<>>)>>),
        Chr({"+"})>>)
\* Line 21: ((prefix)?(separator(excluded|escaped)+)+)
UNIX_LIKE_LOCAL_LINK_REGEX ==
  Cat(<<Opt(pathPrefix),
        Plus(Cat(<<pathSeparatorClause,
                   Plus(Alt(<<excludedPathCharactersClause,
                              escapedExcludedPathCharactersClause>>))>>))>>)

\* '([a-zA-Z]:|\\.\\.?|\\~)'  :  ([a-zA-Z]:|\.\.?|\~)
winPathPrefix ==
  Alt(<<Cat(<<Chr(Letters), Chr({":"})>>),
        Cat(<<Chr({"."}), Opt(Chr({"."}))>>),
        Chr({"~"})>>)
\* '(\\\\|\\/)'  :  (\\|\/)
winPathSeparatorClause == Alt(<<Backslash, Chr({"/"})>>)
\* The characters [^\0<>\?\|\/\s!$`&*()\[\]+'":;] leaves out.
winExcludedPathCharacters == excludedPathCharacters \cup {"<", ">", "?", "|", "/"}
winExcludedPathCharactersClause == NotChr(winExcludedPathCharacters)
\* Line 27: ((prefix)?(separator(excluded)+)+)
WINDOWS_LOCAL_LINK_REGEX ==
  Cat(<<Opt(winPathPrefix),
        Plus(Cat(<<winPathSeparatorClause,
                   Plus(winExcludedPathCharactersClause)>>))>>)

(***************************************************************************)
(* The terminal's link matcher registry (xterm).                           *)
(***************************************************************************)
\* The matcher the terminal holds for hypertext; the constructor sets its
\* handler (wrapped) and its validation callback.
hypertextMatcher ==
  [id |-> 0, kind |-> "hypertext", regex |-> "hypertext", matchIndex |-> 0,
   validationCallback |-> TRUE, priority |-> HYPERTEXT_LINK_PRIORITY]

\* The registry keeps its matchers by descending priority, a new matcher
\* after the registered ones of the same priority.
RECURSIVE addLinkMatcherToList(_, _)
addLinkMatcherToList(list, matcher) ==
  IF list = <<>> THEN <<matcher>>
  ELSE IF matcher.priority <= list[Len(list)].priority
  THEN Append(list, matcher)
  ELSE Append(addLinkMatcherToList(SubSeq(list, 1, Len(list) - 1), matcher),
              list[Len(list)])

\* Arbitration between the matchers whose spans overlap: the higher
\* priority value wins, the first registered among equals.
arbitrate(ms) ==
  CHOOSE m \in ms :
    \A o \in ms : o.priority < m.priority
                  \/ (o.priority = m.priority /\ m.id <= o.id)

\* _localLinkRegex without the platform test.
_localLinkRegex_unixOnly(plat) == "UNIX_LIKE_LOCAL_LINK_REGEX"

\* get _localLinkRegex
_localLinkRegex(plat) ==
  IF plat = "Windows" THEN "WINDOWS_LOCAL_LINK_REGEX"
  ELSE "UNIX_LIKE_LOCAL_LINK_REGEX"

registered(kind) ==
  {linkMatchers[i] : i \in {j \in 1..Len(linkMatchers) : linkMatchers[j].kind = kind}}

\* customMatcher registered at the priority of the local matcher.
customMatcher_localPriority(id, hasValidation) ==
  [id |-> id, kind |-> "custom", regex |-> "custom", matchIndex |-> 0,
   validationCallback |-> hasValidation, priority |-> LOCAL_LINK_PRIORITY]

\* The options registerCustomLinkHandler passes (lines 52-56).
customMatcher(id, hasValidation) ==
  [id |-> id, kind |-> "custom", regex |-> "custom", matchIndex |-> 0,
   validationCallback |-> hasValidation, priority |-> CUSTOM_LINK_PRIORITY]

\* localMatcher with the priority of the custom matchers.
localMatcher_customPriority(id, plat) ==
  [id |-> id, kind |-> "local", regex |-> _localLinkRegex(plat),
   matchIndex |-> 1, validationCallback |-> TRUE,
   priority |-> CUSTOM_LINK_PRIORITY]

\* The options registerLocalLinkHandler passes (lines 64-68).
localMatcher(id, plat) ==
  [id |-> id, kind |-> "local", regex |-> _localLinkRegex(plat),
   matchIndex |-> 1, validationCallback |-> TRUE,
   priority |-> LOCAL_LINK_PRIORITY]

(***************************************************************************)
(* Construction.                                                           *)
(***************************************************************************)
\* Line 114: `let timeout = null`. The variable then holds the handle of
\* a timer that is pending with some time left, has fired, or was cleared.
NoTimeout == [state |-> "null", remaining |-> 0]

\* The pointer has not been over the element.
NoHover == [inside |-> FALSE, leftEarly |-> FALSE, shown |-> 0]

NoEvent ==
  [type |-> "none", kind |-> "none", metaKey |-> FALSE, ctrlKey |-> FALSE,
   defaultPrevented |-> FALSE, handlerCalled |-> FALSE, returned |-> "none"]

\* What the constructor (lines 45-48) leaves: the hypertext handler and
\* validation callback are set, nothing else is registered.
Constructed ==
  /\ linkMatchers = <<hypertextMatcher>>
  /\ nextLinkMatcherId = 1
  /\ lastEvent = NoEvent
  /\ reqs = EmptyBag
  /\ listeners = [e \in Elements |-> <<>>]
  /\ hover = [e \in Elements |-> NoHover]
  /\ message = None

\* The constructed handler once registerLocalLinkHandler() was called.
LocalRegistered ==
  /\ linkMatchers = addLinkMatcherToList(<<hypertextMatcher>>,
                                         localMatcher(1, _platform))
  /\ nextLinkMatcherId = 2
  /\ lastEvent = NoEvent
  /\ reqs = EmptyBag
  /\ listeners = [e \in Elements |-> <<>>]
  /\ hover = [e \in Elements |-> NoHover]
  /\ message = None

(***************************************************************************)
(* Registration.                                                           *)
(***************************************************************************)
registerLinkMatcher(matcher) ==
  /\ Len(linkMatchers) - 1 < MaxMatchers
  /\ linkMatchers' = addLinkMatcherToList(linkMatchers, matcher)
  /\ nextLinkMatcherId' = nextLinkMatcherId + 1

registerCustomLinkHandler(hasValidation) ==
  /\ registerLinkMatcher(customMatcher(nextLinkMatcherId, hasValidation))
  /\ UNCHANGED <<scanVars, envVars, fsVars, lastEvent, reqs, listeners, hoverVars>>

registerLocalLinkHandler ==
  /\ registerLinkMatcher(localMatcher(nextLinkMatcherId, _platform))
  /\ UNCHANGED <<scanVars, envVars, fsVars, lastEvent, reqs, listeners, hoverVars>>

(***************************************************************************)
(* Resolution requests.                                                    *)
(***************************************************************************)
Event(ev, arg) == [ev |-> ev, arg |-> arg]

\* continuation with the resolved link opened as it is, neither resolved
\* against the working directory nor normalized.
continuation_rawOpen(op, element, resolvedLink, win) ==
  IF op = "validate"
  THEN (IF resolvedLink # None
        THEN <<Event("addTooltipEventListeners", <<element>>)>>
        ELSE <<>>)
       \o <<Event("callback", <<IF resolvedLink # None THEN "true" ELSE "false">>)>>
  ELSE IF resolvedLink = None
  THEN <<>>
  ELSE <<Event("openEditor", resolvedLink[1])>>

\* What the .then callback of _validateLocalLink (lines 100-105) or of
\* _handleLocalLink (lines 90-96) does with the resolved link.
continuation(op, element, resolvedLink, win) ==
  IF op = "validate"
  THEN (IF resolvedLink # None
        THEN <<Event("addTooltipEventListeners", <<element>>)>>
        ELSE <<>>)
       \o <<Event("callback", <<IF resolvedLink # None THEN "true" ELSE "false">>)>>
  ELSE IF resolvedLink = None
  THEN <<>>
  ELSE <<Event("openEditor", normalize(resolve(resolvedLink[1], win), win))>>

\* Lines 113-130: a new listener pair on the element, its timeout null.
addTooltipEventListeners(element) ==
  [listeners EXCEPT ![element] = Append(@, NoTimeout)]

\* The listener pairs of the elements once the continuation has run.
listenersAfter(op, element, resolvedLink) ==
  IF op = "validate" /\ resolvedLink # None
  THEN addTooltipEventListeners(element)
  ELSE listeners

settled == {r \in BagToSet(reqs) : r.pc # "pending"}
pending == {r \in BagToSet(reqs) : r.pc = "pending"}

\* A validation of the link has reported true.
validated(link) ==
  \E r \in settled :
    /\ r.op = "validate"
    /\ r.link = link
    /\ r.log # <<>>
    /\ r.log[Len(r.log)] = Event("callback", <<"true">>)

\* this._resolvePath(link).then(...): settled at once when the rewriting
\* aborts (TPromise.as(void 0)), pending on the existence check otherwise.
newRequest(op, link, element) ==
  LET c == candidate(link)
      afterValid == op = "click" /\ validated(link)
  IN IF c.abort
     THEN [op |-> op, link |-> link, element |-> element, path |-> <<>>,
           afterValid |-> afterValid, checked |-> "none", pc |-> "resolved",
           resolvedLink |-> None,
           log |-> continuation(op, element, None, hostWin)]
     ELSE [op |-> op, link |-> link, element |-> element, path |-> c.link,
           afterValid |-> afterValid, checked |-> "none", pc |-> "pending",
           resolvedLink |-> None, log |-> <<>>]

startRequest(op, link, element, limit) ==
  /\ BagCardinality(reqs) < limit
  /\ reqs' = reqs (+) SetToBag({newRequest(op, link, element)})
  /\ listeners' = listeners

\* Lines 161-166: what _resolvePath yields for an outcome of the check.
resolvedFor(outcome, path) == IF outcome = "true" THEN Some(path) ELSE None

\* completed with the link and the element kept in one place shared by
\* the requests in flight: the completion reports on the request that
\* was started last and is pending still.
completed_shared(r, outcome, win) ==
  LET others == {o \in pending : o # r}
      last == IF others = {} THEN r ELSE CHOOSE o \in others : TRUE
  IN IF outcome = "reject"
     THEN [r EXCEPT !.pc = "rejected", !.checked = outcome]
     ELSE [r EXCEPT !.pc = "resolved", !.checked = outcome,
                    !.resolvedLink = resolvedFor(outcome, last.path),
                    !.log = continuation(r.op, last.element,
                                         resolvedFor(outcome, last.path), win)]

\* The request once its existence check has completed with the outcome:
\* a rejection skips the .then callbacks, which have no error handler.
completed(r, outcome, win) ==
  IF outcome = "reject"
  THEN [r EXCEPT !.pc = "rejected", !.checked = outcome]
  ELSE [r EXCEPT !.pc = "resolved", !.checked = outcome,
                 !.resolvedLink = resolvedFor(outcome, r.path),
                 !.log = continuation(r.op, r.element,
                                      resolvedFor(outcome, r.path), win)]

\* The existence check of a pending request completes.
FileExistsComplete(r) ==
  /\ r \in pending
  /\ LET done == completed(r, fileExists(r.path), hostWin) IN
     /\ reqs' = (reqs (-) SetToBag({r})) (+) SetToBag({done})
     /\ listeners' = listenersAfter(done.op, done.element, done.resolvedLink)
  /\ UNCHANGED <<scanVars, envVars, fsVars, xtermVars, lastEvent, hoverVars>>

\* The terminal asks the local matcher's validation callback about a span.
validateLocalLink(link, element, limit) ==
  /\ registered("local") # {}
  /\ startRequest("validate", link, element, limit)
  /\ UNCHANGED <<scanVars, envVars, fsVars, xtermVars, lastEvent, hoverVars>>

(***************************************************************************)
(* Clicks.                                                                 *)
(***************************************************************************)
\* lacksModifier with the platform test dropped: ctrlKey on every platform.
lacksModifier_ctrlOnly(plat, metaKey, ctrlKey) == ~ctrlKey

\* Line 74: the click lacks the platform modifier.
lacksModifier(plat, metaKey, ctrlKey) ==
  IF plat = "Mac" THEN ~metaKey ELSE ~ctrlKey

\* What the handler under the wrapper returns.
handlerReturn(kind) == IF kind = "hypertext" THEN "true" ELSE "undefined"

\* Lines 72-79: the outcome of the wrapped handler for an event.
wrapLinkHandler(kind, plat, metaKey, ctrlKey) ==
  IF lacksModifier(plat, metaKey, ctrlKey)
  THEN [type |-> "click", kind |-> kind, metaKey |-> metaKey,
        ctrlKey |-> ctrlKey, defaultPrevented |-> TRUE,
        handlerCalled |-> FALSE, returned |-> "false"]
  ELSE [type |-> "click", kind |-> kind, metaKey |-> metaKey,
        ctrlKey |-> ctrlKey, defaultPrevented |-> FALSE,
        handlerCalled |-> TRUE, returned |-> handlerReturn(kind)]

\* The terminal calls the wrapped handler of its m-th matcher.
click(m, metaKey, ctrlKey, uri, limit) ==
  /\ m \in 1..Len(linkMatchers)
  /\ lastEvent' = wrapLinkHandler(linkMatchers[m].kind, _platform, metaKey, ctrlKey)
  /\ IF lastEvent'.handlerCalled /\ linkMatchers[m].kind = "local"
     THEN startRequest("click", uri, "none", limit)
     ELSE UNCHANGED <<reqs, listeners>>
  /\ UNCHANGED <<scanVars, envVars, fsVars, xtermVars, hoverVars>>

(***************************************************************************)
(* Hypertext validation and the tooltip listeners (lines 108-130).         *)
(***************************************************************************)
\* Line 124: the delay of the timer, in milliseconds.
HOVER_DELAY == 500

\* Lines 118-122, with the text localize() falls back to: the modifier is
\* chosen by platform.isMacintosh, the platform of the host.
tooltipMessage(host) ==
  IF host = "Mac" THEN "Cmd + click to follow link"
  ELSE "Ctrl + click to follow link"

\* setTimeout(..., 500): the handle of a timer with the whole delay left.
armed == [state |-> "pending", remaining |-> HOVER_DELAY]

\* clearTimeout that cancels nothing.
clearTimeout_noop(t) == t

\* clearTimeout(timeout): a pending timer is cancelled, anything else
\* (null, the handle of a timer that fired or was cleared) is left alone.
clearTimeout(t) ==
  IF t.state = "pending" THEN [state |-> "cleared", remaining |-> 0] ELSE t

\* The timers of the element that have not fired and were not cleared.
pendingTimers(e) ==
  {i \in 1..Len(listeners[e]) : listeners[e][i].state = "pending"}

\* Lines 108-111: the hypertext validation callback. It attaches the
\* listeners and reports true through the callback, which is the
\* terminal's and leaves nothing behind in the handler.
validateWebLink(element) ==
  /\ Len(listeners[element]) < MaxListeners
  /\ listeners' = addTooltipEventListeners(element)
  /\ UNCHANGED <<scanVars, envVars, fsVars, xtermVars, lastEvent, reqs, hoverVars>>

\* Lines 115-125: the pointer comes over the element and every mouseenter
\* listener of it runs, assigning a new timer to its timeout. The pointer
\* was not over the element: the DOM sends no second mouseenter before a
\* mouseleave, so no listener holds a pending timer here.
mouseenter(e) ==
  /\ ~hover[e].inside
  /\ listeners' = [listeners EXCEPT ![e] = [i \in 1..Len(@) |-> armed]]
  /\ hover' = [hover EXCEPT ![e] = [inside |-> TRUE, leftEarly |-> FALSE,
                                     shown |-> 0]]
  /\ UNCHANGED <<scanVars, envVars, fsVars, xtermVars, lastEvent, reqs, message>>

\* Lines 126-129: the pointer leaves the element and every mouseleave
\* listener of it runs: clearTimeout(timeout), closeMessage().
mouseleave(e) ==
  /\ hover[e].inside
  /\ listeners' = [listeners EXCEPT
                     ![e] = [i \in 1..Len(@) |-> clearTimeout(@[i])]]
  /\ message' = IF listeners[e] = <<>> THEN message ELSE None
  /\ hover' = [hover EXCEPT
                 ![e] = [@ EXCEPT !.inside = FALSE,
                                  !.leftEarly =
                                    \E i \in pendingTimers(e) :
                                      listeners[e][i].remaining > 0]]
  /\ UNCHANGED <<scanVars, envVars, fsVars, xtermVars, lastEvent, reqs>>

\* Time passes: every pending timer has that much less to wait.
timePasses(ms) ==
  /\ \E e \in Elements : \E i \in pendingTimers(e) : listeners[e][i].remaining > 0
  /\ listeners' =
       [e \in Elements |->
          [i \in 1..Len(listeners[e]) |->
             IF listeners[e][i].state = "pending"
             THEN [listeners[e][i] EXCEPT
                     !.remaining = IF @ > ms THEN @ - ms ELSE 0]
             ELSE listeners[e][i]]]
  /\ UNCHANGED <<scanVars, envVars, fsVars, xtermVars, lastEvent, reqs, hoverVars>>

\* Lines 117-123: the callback of a timer whose delay is over runs.
timerFires(e, i) ==
  /\ i \in pendingTimers(e)
  /\ listeners[e][i].remaining = 0
  /\ listeners' = [listeners EXCEPT ![e][i] = [state |-> "fired",
                                                remaining |-> 0]]
  /\ message' = Some([element |-> e, text |-> tooltipMessage(hostPlatform)])
  /\ hover' = [hover EXCEPT ![e].shown = @ + 1]
  /\ UNCHANGED <<scanVars, envVars, fsVars, xtermVars, lastEvent, reqs>>

(***************************************************************************)
(* The terminal scans a line of output.                                    *)
(***************************************************************************)
\* The RegExp object behind a pattern of _localLinkRegex.
compiled(regex) ==
  IF regex = "WINDOWS_LOCAL_LINK_REGEX"
  THEN WINDOWS_LOCAL_LINK_REGEX
  ELSE UNIX_LIKE_LOCAL_LINK_REGEX

\* The terminal matches the line against the pattern of the registered
\* local-path matcher; the span it takes is capture group 1, the whole
\* match.
scan ==
  /\ ~found.done
  /\ \E m \in registered("local") :
       found' = [done |-> TRUE, match |-> exec(compiled(m.regex), text)]
  /\ UNCHANGED <<text, envVars, fsVars, xtermVars, lastEvent, reqs,
                 listeners, hoverVars>>

(***************************************************************************)
(* The environment: the filesystem changes under the program.              *)
(***************************************************************************)
FsChange(p, st) ==
  /\ fileExists(p) # st
  /\ files' = IF st = "true" THEN files \cup {p} ELSE files \ {p}
  /\ broken' = IF st = "reject" THEN broken \cup {p} ELSE broken \ {p}
  /\ UNCHANGED <<scanVars, envVars, xtermVars, lastEvent, reqs, listeners, hoverVars>>

(***************************************************************************)
(* Specifications.                                                         *)
(***************************************************************************)
noFiles == files = {} /\ broken = {}

\* No line of output has been scanned.
NotScanned == [done |-> FALSE, match |-> None]
noScan == text = <<>> /\ found = NotScanned

\* The links clicked in SpecGate and the links of Spec.
GateLinks == {DotFoo, AbsFoo}
AsyncLinks == {TildeFoo, DotFoo}

\* Registration and click gating, from the constructed handler.
InitGate ==
  /\ noScan
  /\ _platform \in Platforms
  /\ hostPlatform = _platform
  /\ hasWorkspace \in BOOLEAN
  /\ HOMEDRIVE = None
  /\ HOMEPATH = None
  /\ noFiles
  /\ Constructed

NextGate ==
  \/ \E hasValidation \in BOOLEAN : registerCustomLinkHandler(hasValidation)
  \/ registerLocalLinkHandler
  \/ \E m \in 1..(MaxMatchers + 1), metaKey \in BOOLEAN, ctrlKey \in BOOLEAN,
        uri \in GateLinks : click(m, metaKey, ctrlKey, uri, MaxReqs)
  \/ \E r \in pending : FileExistsComplete(r)

SpecGate == InitGate /\ [][NextGate]_vars

\* Validations and modifier clicks on local links, in flight together,
\* over a filesystem that changes.
Init ==
  /\ noScan
  /\ _platform \in Platforms
  /\ hostPlatform = _platform
  /\ hasWorkspace \in BOOLEAN
  /\ HOMEDRIVE = Some(DriveC)
  /\ HOMEPATH = Some(UsersU)
  /\ noFiles
  /\ LocalRegistered

modifierClick(uri, limit) ==
  \E m \in 1..Len(linkMatchers), metaKey \in BOOLEAN, ctrlKey \in BOOLEAN :
    /\ linkMatchers[m].kind = "local"
    /\ ~lacksModifier(_platform, metaKey, ctrlKey)
    /\ click(m, metaKey, ctrlKey, uri, limit)

Next ==
  \/ \E l \in AsyncLinks, e \in Elements : validateLocalLink(l, e, MaxReqs)
  \/ \E uri \in AsyncLinks : modifierClick(uri, MaxReqs)
  \/ \E r \in pending : FileExistsComplete(r)
  \/ \E p \in Paths(AsyncLinks), st \in {"true", "false", "reject"} : FsChange(p, st)

Spec == Init /\ [][Next]_vars

\* One resolution, from any environment and any filesystem.
InitResolve ==
  /\ noScan
  /\ _platform \in Platforms
  /\ hostPlatform \in Platforms
  /\ hasWorkspace \in BOOLEAN
  /\ HOMEDRIVE \in HomeDrives
  /\ HOMEPATH \in HomePaths
  /\ files \in SUBSET (Paths(Links) \cup Links)
  /\ broken \in SUBSET ((Paths(Links) \cup Links) \ files)
  /\ Cardinality(files \cup broken) <= MaxFsEntries
  /\ LocalRegistered

NextResolve ==
  \/ \E l \in Links : validateLocalLink(l, "e1", 1)
  \/ \E uri \in Links : modifierClick(uri, 1)
  \/ \E r \in pending : FileExistsComplete(r)

SpecResolve == InitResolve /\ [][NextResolve]_vars

\* Two validations, of the same link or of two links, from any platform
\* and workspace state and any filesystem, which then stay as they are.
InitTwice ==
  /\ noScan
  /\ _platform \in Platforms
  /\ hostPlatform = _platform
  /\ hasWorkspace \in BOOLEAN
  /\ HOMEDRIVE \in {None, Some(DriveC)}
  /\ HOMEPATH = Some(UsersU)
  /\ LocalRegistered
  /\ files \in SUBSET (Paths(Links) \cup Links)
  /\ broken \in SUBSET ((Paths(Links) \cup Links) \ files)
  /\ Cardinality(files \cup broken) <= MaxFsEntries

NextTwice ==
  \/ \E l \in Links : validateLocalLink(l, "e1", 2)
  \/ \E r \in pending : FileExistsComplete(r)

SpecTwice == InitTwice /\ [][NextTwice]_vars

\* The steps by which time passes, in milliseconds.
Elapses == {250, 500}

\* Validations of hypertext and of a local link that exists, and the
\* pointer coming over the element and leaving it, while time passes; the
\* injected platform and the platform of the host are independent.
InitHover ==
  /\ noScan
  /\ _platform \in Platforms
  /\ hostPlatform \in Platforms
  /\ hasWorkspace = TRUE
  /\ HOMEDRIVE = Some(DriveC)
  /\ HOMEPATH = Some(UsersU)
  /\ LocalRegistered
  /\ files = Paths({AbsFoo})
  /\ broken = {}

NextHover ==
  \/ \E e \in Elements : validateWebLink(e)
  \/ \E e \in Elements : validateLocalLink(AbsFoo, e, 1)
  \/ \E r \in pending : FileExistsComplete(r)
  \/ \E e \in Elements : mouseenter(e)
  \/ \E e \in Elements : mouseleave(e)
  \/ \E ms \in Elapses : timePasses(ms)
  \/ \E e \in Elements : \E i \in pendingTimers(e) : timerFires(e, i)

SpecHover == InitHover /\ [][NextHover]_vars

\* The characters of the lines scanned: the separators, the prefixes, a
\* letter, the colon, and excluded characters: one that the escaped clause
\* names with a backslash, the plus, one that only Windows excludes.
Alphabet == {"/", "\\", "~", ".", "a", ":", "!", "+", "?"}
Texts == UNION {[1..n -> Alphabet] : n \in 0..MaxLen}

\* A line of output scanned with the local-path pattern of the platform.
InitScan ==
  /\ _platform \in Platforms
  /\ hostPlatform = _platform
  /\ hasWorkspace = TRUE
  /\ HOMEDRIVE = None
  /\ HOMEPATH = None
  /\ noFiles
  /\ LocalRegistered
  /\ text \in Texts
  /\ found = NotScanned

NextScan == scan

SpecScan == InitScan /\ [][NextScan]_vars

(***************************************************************************)
(* Claims.                                                                 *)
(***************************************************************************)
clickRequests(b) == {r \in BagToSet(b) : r.op = "click"}
countOf(b, S) == BagCardinality([r \in S |-> CopiesIn(r, b)])

\* The last event was a click without the modifier of the injected
\* platform: metaKey on Mac, ctrlKey elsewhere.
unmodifiedClick(ev) ==
  /\ ev.type = "click"
  /\ IF _platform = "Mac" THEN ~ev.metaKey ELSE ~ev.ctrlKey

\* C1: whatever handler is wrapped (hypertext, custom, local), a click
\* without the platform modifier never invokes the underlying handler (no
\* call is recorded and no local-link resolution starts), calls
\* preventDefault on the event, and the wrapper returns false.
C1_UnmodifiedClickBlocked ==
  /\ [](unmodifiedClick(lastEvent) =>
          /\ ~lastEvent.handlerCalled
          /\ lastEvent.defaultPrevented
          /\ lastEvent.returned = "false")
  /\ [][countOf(reqs', clickRequests(reqs')) > countOf(reqs, clickRequests(reqs))
          => ~unmodifiedClick(lastEvent')]_vars

\* A click on a local link on Mac with ctrl held but not cmd was blocked.
C1_Witness ==
  /\ unmodifiedClick(lastEvent)
  /\ lastEvent.kind = "local"
  /\ _platform = "Mac"
  /\ lastEvent.ctrlKey
  /\ lastEvent.defaultPrevented

opens(r) == SelectSeq(r.log, LAMBDA e : e.ev = "openEditor")
callbacks(r) == SelectSeq(r.log, LAMBDA e : e.ev = "callback")

\* C2: a modifier click on a local link asks the editor host to open
\* exactly once, the normalized absolute form of the resolved path, when
\* the click's own resolution succeeded; a click whose resolution has not
\* succeeded (absent, also after a successful validation of the same link)
\* has made no open request.
C2_OpenOncePerResolvedClick ==
  \A r \in clickRequests(reqs) :
    IF r.pc = "resolved" /\ r.checked = "true"
    THEN /\ r.resolvedLink = Some(r.path)
         /\ r.log = <<Event("openEditor",
                            normalize(resolve(r.path, hostWin), hostWin))>>
         /\ isAbsolute(r.log[1].arg, hostWin)
         /\ normalize(r.log[1].arg, hostWin) = r.log[1].arg
    ELSE opens(r) = <<>>

\* A click whose resolution returned absent after a validation of the same
\* link had reported true: nothing was opened.
C2_Witness ==
  \E r \in clickRequests(reqs) :
    /\ r.afterValid
    /\ r.pc = "resolved"
    /\ r.checked = "false"
    /\ r.resolvedLink = None
    /\ r.log = <<>>

\* The preconditions of a link's resolution, as the claims state them.
startsWith(link, c) == link # <<>> /\ link[1] = c
missing(v) == v = None \/ v = Some(<<>>)
needsWorkspace(r) == startsWith(r.link, ".") /\ ~hasWorkspace
needsHome(r) == startsWith(r.link, "~") /\ (missing(HOMEDRIVE) \/ missing(HOMEPATH))

\* C3: when the preconditions of a link are met, _resolvePath yields the
\* candidate path if the existence check reports an existing regular file
\* and absent in every other case, the failure of the check included: once
\* the check has completed the caller has exactly one outcome.
C3_OneOutcomePerCheck ==
  \A r \in BagToSet(reqs) :
    r.checked # "none" =>
      /\ r.pc = "resolved"
      /\ r.resolvedLink = IF r.checked = "true" THEN Some(r.path) ELSE None

\* C4: a link starting with '.' without a workspace, and a link starting
\* with '~' without the home-drive or home-path value, resolve to absent
\* whatever the filesystem holds.
C4_PreconditionFailsAbsent ==
  \A r \in BagToSet(reqs) :
    (needsWorkspace(r) \/ needsHome(r)) => r.resolvedLink = None

\* C4 (amended): a link starting with '.' without a workspace, and on
\* Windows a link starting with '~' without the home-drive or home-path
\* value (undefined or empty), resolve to absent at once: the existence
\* check is not consulted and a validation reports false.
C4_PreconditionFailsAbsentOnWindows ==
  \A r \in BagToSet(reqs) :
    (needsWorkspace(r) \/ (_platform = "Windows" /\ needsHome(r))) =>
      /\ r.pc = "resolved"
      /\ r.resolvedLink = None
      /\ r.checked = "none"
      /\ opens(r) = <<>>
      /\ r.op = "validate" => r.log = <<Event("callback", <<"false">>)>>

\* On Windows '~/foo' without HOMEPATH resolved to absent although a file
\* '~/foo' exists.
C4_Witness ==
  \E r \in settled :
    /\ _platform = "Windows"
    /\ r.link = TildeFoo
    /\ HOMEPATH = None
    /\ TildeFoo \in files
    /\ r.resolvedLink = None

\* 'C:\Users\u\foo'
HomeFoo == <<"C",":","\\","U","s","e","r","s","\\","u","\\","f","o","o">>
\* 'C:\\Users\u/foo'
HomeFooAsBuilt == <<"C",":","\\","\\","U","s","e","r","s","\\","u","/","f","o","o">>

tildeOnWindows(r) ==
  /\ _platform = "Windows"
  /\ startsWith(r.link, "~")
  /\ ~missing(HOMEDRIVE)
  /\ ~missing(HOMEPATH)

\* C5: on Windows, for a link starting with '~' with both home values
\* present, the path handed to the existence check is homedrive + homepath
\* + the rest of the link; '~/foo' with 'C:' and '\Users\u' gives
\* 'C:\Users\u\foo'.
C5_TildeCandidate ==
  \A r \in BagToSet(reqs) :
    tildeOnWindows(r) =>
      /\ r.path = HOMEDRIVE[1] \o HOMEPATH[1] \o Tail(r.link)
      /\ (r.link = TildeFoo /\ HOMEDRIVE = Some(DriveC) /\ HOMEPATH = Some(UsersU))
           => r.path = HomeFoo

\* C5 (amended): the path handed to the existence check is homedrive + '\'
\* + homepath + the rest of the link, not normalized; '~/foo' with 'C:' and
\* '\Users\u' gives 'C:\\Users\u/foo'.
C5_TildeCandidateWithSeparator ==
  \A r \in BagToSet(reqs) :
    tildeOnWindows(r) =>
      /\ r.path = HOMEDRIVE[1] \o <<"\\">> \o HOMEPATH[1] \o Tail(r.link)
      /\ (r.link = TildeFoo /\ HOMEDRIVE = Some(DriveC) /\ HOMEPATH = Some(UsersU))
           => r.path = HomeFooAsBuilt
      /\ r.checked = "true" => r.resolvedLink = Some(r.path)

\* '~/foo' was checked on Windows as 'C:\\Users\u/foo' and found.
C5_Witness ==
  \E r \in settled :
    /\ tildeOnWindows(r)
    /\ r.link = TildeFoo
    /\ r.path = HomeFooAsBuilt
    /\ r.checked = "true"

\* '/home/u/project/foo'
ProjectFoo ==
  <<"/","h","o","m","e","/","u","/","p","r","o","j","e","c","t","/","f","o","o">>

\* C6: on every platform, for a link starting with '.' while a workspace
\* is open, the path handed to the existence check is the workspace root
\* joined with the link (once); './foo' off Windows with the root
\* '/home/u/project' gives '/home/u/project/foo'.
C6_DotCandidate ==
  \A r \in BagToSet(reqs) :
    (startsWith(r.link, ".") /\ hasWorkspace) =>
      /\ r.path = join(workspaceRoot(hostWin), r.link, hostWin)
      /\ r.checked = "true" => r.resolvedLink = Some(r.path)
      /\ (r.link = DotFoo /\ _platform # "Windows" /\ ~hostWin)
           => r.path = ProjectFoo

\* './foo' was checked on Linux as '/home/u/project/foo' and found.
C6_Witness ==
  \E r \in settled :
    /\ r.link = DotFoo
    /\ _platform = "Linux"
    /\ hostPlatform = "Linux"
    /\ hasWorkspace
    /\ r.path = ProjectFoo
    /\ r.resolvedLink = Some(ProjectFoo)

validations(b) == {r \in BagToSet(b) : r.op = "validate"}

\* C7: when the existence check fails (its promise rejects), resolution
\* yields absent, a validation still calls its callback with false, and no
\* rejection leaves _validateLocalLink or the local-link click handler.
C7_FailedCheckIsAbsent ==
  \A r \in BagToSet(reqs) :
    r.checked = "reject" =>
      /\ r.pc = "resolved"
      /\ r.resolvedLink = None
      /\ opens(r) = <<>>
      /\ r.op = "validate" => r.log = <<Event("callback", <<"false">>)>>

\* C8: every validation request that is over has called its callback
\* exactly once, with true if and only if the resolution succeeded; the
\* tooltip listeners are attached to the element only when it succeeded,
\* and before the callback reports true.
C8_CallbackOncePerValidation ==
  \A r \in validations(reqs) :
    IF r.pc = "pending"
    THEN r.log = <<>>
    ELSE /\ Len(callbacks(r)) = 1
         /\ r.log = IF r.resolvedLink # None
                    THEN <<Event("addTooltipEventListeners", <<r.element>>),
                           Event("callback", <<"true">>)>>
                    ELSE <<Event("callback", <<"false">>)>>

\* The local-path pattern of the injected platform.
platformPattern ==
  IF _platform = "Windows" THEN "WINDOWS_LOCAL_LINK_REGEX"
  ELSE "UNIX_LIKE_LOCAL_LINK_REGEX"

isLocalPathMatcher(m) ==
  /\ m.kind = "local"
  /\ m.regex = platformPattern
  /\ m.priority = LOCAL_LINK_PRIORITY

\* C9: right after construction, before any other method is called, the
\* hypertext matcher and a local-path matcher (platform-selected pattern,
\* LOCAL_LINK priority) are both registered with the terminal.
C9_BothRegisteredAtConstruction ==
  Constructed =>
    /\ registered("hypertext") # {}
    /\ \E i \in 1..Len(linkMatchers) : isLocalPathMatcher(linkMatchers[i])

\* C9 (amended): construction sets the hypertext handler and validation
\* callback only; a local-path matcher is registered by a call of
\* registerLocalLinkHandler and by nothing else, with the platform-selected
\* pattern, capture group 1, a validation callback and LOCAL_LINK priority.
C9_LocalRegisteredOnCall ==
  /\ [](registered("hypertext") = {hypertextMatcher})
  /\ [](Constructed => registered("local") = {})
  /\ [](\A m \in registered("local") :
          isLocalPathMatcher(m) /\ m.matchIndex = 1 /\ m.validationCallback)
  /\ [][(registered("local")' # registered("local")) <=> registerLocalLinkHandler]_vars

\* On Windows registerLocalLinkHandler has registered the Windows pattern.
C9_Witness ==
  /\ _platform = "Windows"
  /\ \E m \in registered("local") : m.regex = "WINDOWS_LOCAL_LINK_REGEX"

\* C10: every matcher registered through registerCustomLinkHandler has a
\* priority strictly above the local-path matcher's and strictly below the
\* hypertext matcher's (0), so that arbitration between overlapping spans
\* takes hypertext over custom and custom over local-path.
C10_CustomBetweenLocalAndHypertext ==
  \A c \in registered("custom") :
    /\ c.priority < 0
    /\ \A h \in registered("hypertext") :
         c.priority < h.priority /\ arbitrate({h, c}) = h
    /\ \A l \in registered("local") :
         /\ l.priority < c.priority
         /\ arbitrate({c, l}) = c
         /\ \A h \in registered("hypertext") : arbitrate({l, c, h}) = h

\* A custom matcher was registered after the local-path matcher and still
\* ranks between it and the hypertext matcher.
C10_Witness ==
  \E c \in registered("custom"), l \in registered("local") :
    /\ l.id < c.id
    /\ arbitrate({c, l}) = c
    /\ arbitrate({c, l, hypertextMatcher}) = hypertextMatcher

\* What a request's caller has got from _resolvePath.
outcome(r) == <<r.pc, r.checked, r.resolvedLink, r.path>>

allRegistered == {linkMatchers[i] : i \in 1..Len(linkMatchers)}

\* C16: whatever calls of registerCustomLinkHandler and
\* registerLocalLinkHandler were made, no two registered matchers have the
\* same priority.
C16_DistinctPriorities ==
  \A m1 \in allRegistered, m2 \in allRegistered :
    m1 # m2 => m1.priority # m2.priority

\* C16 (amended): two registered matchers have the same priority exactly
\* when they are of the same kind (hypertext 0, custom -1, local-path -2);
\* between two matchers of one kind arbitration takes the one registered
\* first.
C16_DistinctPrioritiesAcrossKinds ==
  \A m1 \in allRegistered, m2 \in allRegistered :
    /\ (m1.priority = m2.priority) <=> (m1.kind = m2.kind)
    /\ (m1.kind = m2.kind /\ m1.id < m2.id) => arbitrate({m1, m2}) = m1

\* Two custom matchers are registered, both at priority -1.
C16_Witness ==
  \E c1 \in registered("custom"), c2 \in registered("custom") :
    /\ c1.id < c2.id
    /\ c1.priority = c2.priority
    /\ arbitrate({c1, c2}) = c1

\* The validations that have reported true for the element.
succeeded(e) ==
  {r \in validations(reqs) : r.element = e /\ callbacks(r) = <<Event("callback", <<"true">>)>>}

\* C17: with several validations (and clicks) in flight, whose existence
\* checks complete in any order, a validation that calls its callback
\* passes the outcome of the check of its own link, true with its own
\* candidate path found and the tooltip listeners put on its own element;
\* an element has one listener pair per validation of it that reported
\* true; and a completion changes no other request.
C17_OwnOutcomeOnly ==
  /\ [](\A r \in validations(reqs) :
          callbacks(r) # <<>> =>
            /\ r.path = (IF candidate(r.link).abort THEN <<>> ELSE candidate(r.link).link)
            /\ r.resolvedLink = (IF r.checked = "true" THEN Some(r.path) ELSE None)
            /\ r.log = IF r.checked = "true"
                       THEN <<Event("addTooltipEventListeners", <<r.element>>),
                              Event("callback", <<"true">>)>>
                       ELSE <<Event("callback", <<"false">>)>>)
  /\ [](\A e \in Elements : Len(listeners[e]) = countOf(reqs, succeeded(e)))
  /\ [][\A r \in pending :
          FileExistsComplete(r) =>
            \E done \in BagToSet(reqs') :
              /\ done.pc # "pending"
              /\ done.link = r.link /\ done.element = r.element /\ done.op = r.op
              /\ reqs' (-) SetToBag({done}) = reqs (-) SetToBag({r})]_vars

\* Two validations were in flight together, of '~/foo' on one element and
\* of './foo' on another; the first reported false, the second true.
C17_Witness ==
  \E r1 \in validations(reqs), r2 \in validations(reqs) :
    /\ r1.link = TildeFoo /\ r1.element = "e1"
    /\ r2.link = DotFoo /\ r2.element = "e2"
    /\ r1.log = <<Event("callback", <<"false">>)>>
    /\ r2.log = <<Event("addTooltipEventListeners", <<"e2">>),
                  Event("callback", <<"true">>)>>
    /\ listeners["e1"] = <<>>
    /\ Len(listeners["e2"]) = 1

\* _resolvePath up to the existence check with the dot check of the
\* non-Windows branch (lines 143-149) removed.
withoutBranchCheck(link) ==
  LET first == IF _platform = "Windows"
               THEN tildeRewrite(link, HOMEDRIVE, HOMEPATH)
               ELSE Goes(link)
  IN IF first.abort THEN Abort ELSE dotRewrite(first.link, hasWorkspace, hostWin)

\* _resolvePath up to the existence check with the dot check after the
\* platform branch (lines 152-158) skipped off Windows.
withoutRecheck(link) ==
  IF _platform = "Windows"
  THEN candidate(link)
  ELSE platformBranch(link, _platform, HOMEDRIVE, HOMEPATH, hasWorkspace, hostWin)

\* What a request would have got from the existence check of a candidate.
outcomeOf(c) ==
  IF c.abort THEN <<"none", None>>
  ELSE <<fileExists(c.link), resolvedFor(fileExists(c.link), c.link)>>

\* C18: off Windows, with the workspace root absolute, the root is joined
\* onto a link at most once (the joined path does not start with '.', so
\* the second dot check leaves it alone), and _resolvePath without the dot
\* check of the non-Windows branch, and without the dot check after the
\* branch, hands the same path to the existence check and has the same
\* outcome as _resolvePath as it is.
C18_RecheckRedundantOffWindows ==
  \A r \in BagToSet(reqs) :
    _platform # "Windows" =>
      /\ withoutBranchCheck(r.link) = candidate(r.link)
      /\ withoutRecheck(r.link) = candidate(r.link)
      /\ r.path = (IF candidate(r.link).abort THEN <<>> ELSE candidate(r.link).link)
      /\ r.pc = "resolved" =>
           /\ <<r.checked, r.resolvedLink>> = outcomeOf(withoutBranchCheck(r.link))
           /\ <<r.checked, r.resolvedLink>> = outcomeOf(withoutRecheck(r.link))
      /\ (startsWith(r.link, ".") /\ hasWorkspace) =>
           /\ r.path = join(workspaceRoot(hostWin), r.link, hostWin)
           /\ ~startsWith(r.path, ".")
           /\ dotRewrite(r.path, hasWorkspace, hostWin) = Goes(r.path)

\* On Linux '../foo' was joined onto the workspace root once, checked as
\* '/home/u/foo' and found.
C18_Witness ==
  \E r \in settled :
    /\ _platform = "Linux" /\ hostPlatform = "Linux"
    /\ hasWorkspace
    /\ r.link = DotDotFoo
    /\ r.path = <<"/","h","o","m","e","/","u","/","f","o","o">>
    /\ r.resolvedLink = Some(r.path)

\* C20: off Windows a link starting with '~' is not rewritten, whatever
\* the home values and the workspace are: the resolution does not abort,
\* the existence check is asked about the link as it is, and the outcome
\* is that of this check: the link itself if it reports true, absent if
\* it reports false, no outcome if it fails.
C20_TildeKeptOffWindows ==
  \A r \in BagToSet(reqs) :
    (_platform # "Windows" /\ startsWith(r.link, "~")) =>
      /\ candidate(r.link) = Goes(r.link)
      /\ r.path = r.link
      /\ startsWith(r.path, "~")
      /\ r.pc = "pending" => r.checked = "none" /\ r.resolvedLink = None
      /\ r.pc # "pending" =>
           /\ r.checked = fileExists(r.link)
           /\ r.resolvedLink = resolvedFor(r.checked, r.link)
           /\ (r.pc = "rejected") <=> (r.checked = "reject")

\* On Linux, with neither home value set and no workspace, '~/foo' was
\* checked as '~/foo' and resolved to it.
C20_Witness ==
  \E r \in settled :
    /\ _platform = "Linux"
    /\ HOMEDRIVE = None /\ HOMEPATH = None /\ ~hasWorkspace
    /\ r.link = TildeFoo
    /\ r.checked = "true"
    /\ r.resolvedLink = Some(TildeFoo)

\* The element has listeners, so that its hovers are those of a validated
\* span.
hasListeners(e) == listeners[e] # <<>>

\* C13: on an element with tooltip listeners, mouseenter leaves every
\* listener's timer pending with the whole delay of 500 ms to wait, and
\* showMessage is called only by a timer whose delay is over, the pointer
\* still being over the element; mouseleave leaves no timer of the element
\* pending and closes the message, and once the pointer has left before
\* the delay was over, showMessage has not been called for that hover and
\* is not called until the pointer comes over the element again.
C13_LeaveBeforeDelayCancels ==
  /\ [][\A e \in Elements :
          mouseenter(e) =>
            /\ pendingTimers(e)' = 1..Len(listeners[e])
            /\ \A i \in pendingTimers(e)' : listeners'[e][i].remaining = HOVER_DELAY]_vars
  /\ [][\A e \in Elements :
          hover'[e].shown > hover[e].shown =>
            /\ hover[e].inside /\ hover'[e].inside
            /\ \E i \in pendingTimers(e) :
                 /\ listeners[e][i].remaining = 0
                 /\ listeners'[e][i].state = "fired"
            /\ message' # None /\ message'[1].element = e]_vars
  /\ [][\A e \in Elements :
          (mouseleave(e) /\ hasListeners(e)) =>
            pendingTimers(e)' = {} /\ message' = None]_vars
  /\ [](\A e \in Elements :
          hover[e].leftEarly =>
            /\ hover[e].shown = 0
            /\ pendingTimers(e) = {}
            /\ ~hover[e].inside)

\* The pointer left the element 250 ms after it came, the timer of its
\* one listener pair was cleared and nothing is shown.
C13_Witness ==
  /\ hover["e1"].leftEarly
  /\ hover["e1"].shown = 0
  /\ Len(listeners["e1"]) = 1
  /\ listeners["e1"][1].state = "cleared"
  /\ message = None

\* C15: whatever validations succeeded for an element and whatever
\* mouseenter and mouseleave events it got, at most one of its hover
\* timers is pending, and none once the pointer has left.
C15_OneTimerPerElement ==
  \A e \in Elements :
    /\ Cardinality(pendingTimers(e)) <= 1
    /\ ~hover[e].inside => pendingTimers(e) = {}
    /\ hover[e].shown <= 1

\* The modifier the wrapped handlers ask for (line 74).
requiresMeta == lacksModifier(_platform, FALSE, TRUE) /\ ~lacksModifier(_platform, TRUE, FALSE)
requiresCtrl == lacksModifier(_platform, TRUE, FALSE) /\ ~lacksModifier(_platform, FALSE, TRUE)

\* C19: whatever the injected platform and the platform of the host are,
\* a tooltip that is shown says 'Cmd + click to follow link' exactly when
\* the wrapped handlers require metaKey and 'Ctrl + click to follow link'
\* exactly when they require ctrlKey.
C19_TooltipNamesGateModifier ==
  message # None =>
    /\ (message[1].text = "Cmd + click to follow link") <=> requiresMeta
    /\ (message[1].text = "Ctrl + click to follow link") <=> requiresCtrl

\* The pattern the line was scanned with is the Windows one.
windowsPattern == _platform = "Windows"

\* The exclusion sets and the escapable characters, as the claims list
\* them.
UnixExclusionSet ==
  {NUL} \cup Whitespace \cup
  {"!", "$", Backtick, "&", "*", "(", ")", "[", "]", "+", "'", "\"", ":", ";"}
WindowsExclusionSet == UnixExclusionSet \cup {"<", ">", "?", "|"}
Escapable == Whitespace \cup {"!", "$", Backtick, "&", "*", "(", ")", "+"}

\* The character at position k of s is escaped: an odd number of
\* backslashes stands right before it.
RECURSIVE backslashesBefore(_, _)
backslashesBefore(s, k) ==
  IF k > 1 /\ s[k - 1] = "\\" THEN 1 + backslashesBefore(s, k - 1) ELSE 0
escaped(s, k) == backslashesBefore(s, k) % 2 = 1

\* The span matched and the position in the line of the character after
\* it.
span == found.match[1].span
after == found.match[1].index + Len(span) + 1

\* C11: the span matched by the pattern of the platform contains no
\* unescaped character of the platform's exclusion set, and on the
\* Unix-like pattern the match does not end at a backslash-escaped
\* escapable character: such a character is kept in the match.
C11_NoUnescapedExcludedCharacter ==
  (found.done /\ found.match # None) =>
    /\ \A k \in 1..Len(span) :
         span[k] \in (IF windowsPattern THEN WindowsExclusionSet
                                        ELSE UnixExclusionSet)
           => escaped(span, k)
    /\ ~windowsPattern =>
         ~(/\ after <= Len(text)
           /\ text[after] \in Escapable
           /\ escaped(text, after))

\* The grammar of a match: an optional prefix, then one or more groups of
\* a separator and one or more path characters, a path character being a
\* character the platform does not exclude or, on the Unix-like pattern,
\* an escapable character after a backslash.
pathCharacter ==
  IF windowsPattern THEN winExcludedPathCharactersClause
  ELSE Alt(<<excludedPathCharactersClause, Cat(<<Backslash, Chr(Escapable)>>)>>)
grammar ==
  IF windowsPattern
  THEN Cat(<<Opt(winPathPrefix),
             Plus(Cat(<<winPathSeparatorClause, Plus(pathCharacter)>>))>>)
  ELSE Cat(<<Opt(pathPrefix),
             Plus(Cat(<<pathSeparatorClause, Plus(pathCharacter)>>))>>)

\* The whole of s is a sentence of the pattern.
wholeMatch(re, s) ==
  \E n \in 1..Len(ends(re, s, 1)) : ends(re, s, 1)[n] = Len(s) + 1

\* The line holds the string t.
contains(s, t) ==
  \E i \in 0..(Len(s) - Len(t)) : SubSeq(s, i + 1, i + Len(t)) = t

\* C12: every match is an optional prefix followed by one or more groups
\* of a separator and one or more path characters; the line '~' has no
\* match; a line that holds '~/a', and under the Windows pattern one that
\* holds '~\a', has a match.
C12_MatchHasSeparatorAndContent ==
  found.done =>
    /\ found.match # None => wholeMatch(grammar, span)
    /\ text = <<"~">> => found.match = None
    /\ contains(text, <<"~", "/", "a">>) => found.match # None
    /\ (windowsPattern /\ contains(text, <<"~", "\\", "a">>)) => found.match # None

=============================================================================
